---- MODULE Spec2Model ----
(***************************************************************************)
(* Model of backend/controllers/throttle.js: the request-frequency limiter *)
(* (class RateLimiter), the byte-rate throttle (class ThrottleStream) and  *)
(* the load-adaptive endpoint (adaptiveThrottle).                          *)
(*                                                                         *)
(* Date.now() is the variable now, an integer number of milliseconds that  *)
(* only the action of the clock advances; a JavaScript callback runs to    *)
(* completion, so each handler is one action.                              *)
(***************************************************************************)
EXTENDS Integers, Sequences, FiniteSets, TLC

(***************************************************************************)
(* Bounds of the model.                                                    *)
(***************************************************************************)
\* the clock of the limiter runs from 0 to MaxTime
MaxTime == 5
\* isAllowed() is called at most MaxCalls times between two reset() calls
MaxCalls == 5
\* reset() is called at most MaxResets times
MaxResets == 1

\* a producer writes at most MaxChunks chunks to one ThrottleStream
MaxChunks == 3
\* the clock of a ThrottleStream advances at most MaxTicks times
MaxTicks == 4
\* the adaptive endpoint changes the rate at most MaxAdaptations times
MaxAdaptations == 3

\* options handed to new RateLimiter(options)
RequestsPerSecondOpts == {0, 1, 2, 3}
WindowSizeOpts == {0, 2, 3}
BurstLimitOpts == {0, 1, 2}

\* options handed to new ThrottleStream(options); 0 stands for an option left
\* out (options.x || default)
BytesPerSecondOpts == {-5, 0, 1, 1000}
ChunkDelayOpts == {0, 2000}
BurstSizeOpts == {0, 2}
\* the query of a request to the adaptive endpoint: baseBytesPerSecond,
\* adaptationFactor in halves (1 is 0.5), loadThreshold in hundredths
BaseBytesPerSecondOpts == {0, 1, 60, 1000}
AdaptationFactorOpts == {1, 2}
LoadThresholdOpts == {20, 80}
\* sizes in bytes of the body of a request to the adaptive endpoint
InputSizes == {2, 3000}
\* the values of Math.random() sampled as the load, in hundredths
Loads == {0, 20, 30, 80, 90}
\* sizes in bytes of the chunks a producer writes
ChunkSizes == {1, 2}
\* sizes in bytes of the chunks of a producer that also writes a chunk of one
\* byte more than a megabyte
LargeChunkSizes == {1, 1024 * 1024 + 1}
\* the amounts in milliseconds by which the clock advances between callbacks
TickSteps == {1, 1000}

(***************************************************************************)
(* Helpers: Math.max, Math.min.                                            *)
(***************************************************************************)
Max(a, b) == IF a >= b THEN a ELSE b
Min(a, b) == IF a <= b THEN a ELSE b

\* Math.min(...s) of a non-empty sequence of numbers
MinOf(s) == CHOOSE m \in {s[i] : i \in DOMAIN s} : \A i \in DOMAIN s : m <= s[i]

VARIABLES
    now,                \* Date.now()
    \* ---- RateLimiter ----
    requestsPerSecond,  \* this.requestsPerSecond
    windowSize,         \* this.windowSize
    burstLimit,         \* this.burstLimit
    requests,           \* this.requests: timestamps of the accepted calls kept
    burstUsed,          \* this.burstUsed
    lastAllowed,        \* what the last isAllowed() returned ("none" before any call)
    accepted,           \* history: the times of the calls that returned true
    calls,              \* history: number of isAllowed() calls since construction / reset
    freshAt,            \* history: the time of construction / of the last reset
    resets,             \* history: number of reset() calls
    demo                \* rateLimiting: phase ("none": no request; "running": the
                        \* interval is set; "replied": the interval is cleared and
                        \* the reply sent), startTime, endTime (nan: it is NaN),
                        \* due: the time the next run of testInterval is due,
                        \* requestCount, allowedCount, blockedCount, results,
                        \* replies: history, number of reply.send() calls

VARIABLES
    \* ---- ThrottleStream ----
    bytesPerSecond,     \* this.bytesPerSecond, in units of 1 / RateScale bytes per second
    chunkDelay,         \* this.chunkDelay
    burstSize,          \* this.burstSize
    smoothing,          \* this.smoothing
    startTime,          \* this.startTime
    chan,               \* the fields a callback changes: bytesWritten, lastChunkTime,
                        \* burstBytesUsed, queue, processing, stats; awaiting / wakeAt /
                        \* delay: the item _processQueue holds across
                        \* `await this._delay(delay)`, the time its timer is due and
                        \* the delay; writing / buffered: the write the
                        \* stream has handed to _transform and the writes waiting for its
                        \* callback; ending: end() has been called; endEmitted: 'end'
                        \* has been emitted; pushed / called: history of
                        \* this.push(item.chunk) and of item.callback();
                        \* endedWhileWriting: history, end() was called during a write;
                        \* rejected: number of writes refused as write after end
    written,            \* history: the sizes of the chunks written; chunk i is the i-th
    ticks,              \* history: number of clock advances
    snapshot            \* what the last getStats() returned, while no chunk has been
                        \* enqueued or released since (NoStats otherwise)

throttleVars == <<bytesPerSecond, chunkDelay, burstSize, smoothing, startTime, chan,
                  written, ticks, snapshot>>

VARIABLES
    \* ---- adaptiveThrottle ----
    baseBytesPerSecond,     \* parseInt(baseBytesPerSecond)
    adaptationFactor,       \* parseFloat(adaptationFactor), in halves
    loadThreshold,          \* parseFloat(loadThreshold), in hundredths
    currentBytesPerSecond,  \* in units of 1 / RateScale bytes per second
    adaptations,            \* the records pushed
    handler,                \* "none": no request; "created": the stream and the interval are
                            \* set up; "running": write() and end() are done; "replied":
                            \* the 'end' listener has cleared the interval and replied
    intervalDue,            \* the time the next run of adaptInterval is due
    samples                 \* history: the loads sampled by the runs of adaptInterval

adaptiveVars == <<baseBytesPerSecond, adaptationFactor, loadThreshold,
                  currentBytesPerSecond, adaptations, handler, intervalDue, samples>>

limiterVars == <<requestsPerSecond, windowSize, burstLimit, requests, burstUsed,
                 lastAllowed, accepted, calls, freshAt, resets, demo>>

vars == <<now, limiterVars, throttleVars, adaptiveVars>>

(***************************************************************************)
(* Numbers that are not integers (a delay, an average, a percentage) are   *)
(* exact fractions [n, d] in lowest terms with d > 0; [n |-> 1, d |-> 0]   *)
(* is Infinity (a division by a rate of 0).                                *)
(***************************************************************************)
Abs(a) == IF a < 0 THEN -a ELSE a

RECURSIVE Gcd(_, _)
Gcd(a, b) == IF b = 0 THEN a ELSE Gcd(b, a % b)

Frac(n, d) ==
    IF d = 0 THEN [n |-> 1, d |-> 0]
    ELSE LET sn == IF d < 0 THEN -n ELSE n
             sd == Abs(d)
             g == Gcd(Abs(sn), sd)
         IN  [n |-> sn \div g, d |-> sd \div g]

Zero == [n |-> 0, d |-> 1]

\* f > 0
Positive(f) == f.n > 0

\* f <= k, for an integer k
AtMost(f, k) == f.d # 0 /\ f.n <= k * f.d

\* Math.min(f, k), for an integer k
FracMin(f, k) == IF AtMost(f, k) THEN f ELSE Frac(k, 1)

\* the number of whole milliseconds after which a timer set for f > 0
\* milliseconds is due: the timer is not run before f milliseconds have
\* passed on the millisecond clock, and a duration that is not finite is
\* replaced by 1
CeilMs(f) == IF f.d = 0 THEN 1 ELSE (f.n + f.d - 1) \div f.d

\* Math.round(n / d) for d > 0: the nearest integer, halves upwards
Round(n, d) == (2 * n + d) \div (2 * d)

(***************************************************************************)
(* class ThrottleStream                                                    *)
(***************************************************************************)
\* rates are kept in units of 1 / RateScale bytes per second, so that the
\* rates the adaptive endpoint assigns (halves of halves) stay integers
RateScale == 2 ^ MaxAdaptations

\* LIMITS
MAX_BYTES_PER_SECOND == 10 * 1024 * 1024
MIN_BYTES_PER_SECOND == 1
MAX_CHUNK_SIZE == 1024 * 1024
MAX_DELAY == 60000

\* options.bytesPerSecond || 1024
DefaultBytesPerSecond == 1024

\* delays longer than this are cut when smoothing is on
SmoothingCap == 1000

\* no item: the value of chan.awaiting while _processQueue is not suspended
NoItem == [chunk |-> 0, size |-> 0, timestamp |-> 0]

\* constructor(options), called now
ThrottleStreamNew(optBytesPerSecond, optChunkDelay, optBurstSize, optSmoothing) ==
    /\ bytesPerSecond =
          Max(MIN_BYTES_PER_SECOND,
              Min(MAX_BYTES_PER_SECOND,
                  IF optBytesPerSecond = 0 THEN DefaultBytesPerSecond
                                           ELSE optBytesPerSecond)) * RateScale
    /\ chunkDelay = Max(0, Min(MAX_DELAY, optChunkDelay))
    /\ burstSize = Max(0, optBurstSize)
    /\ smoothing = (optSmoothing # FALSE)
    /\ startTime = now
    /\ chan = [bytesWritten |-> 0,
               lastChunkTime |-> now,
               burstBytesUsed |-> 0,
               queue |-> <<>>,
               processing |-> FALSE,
               stats |-> [totalBytes |-> 0, totalChunks |-> 0, delays |-> 0,
                          avgDelay |-> Zero, startTime |-> now],
               awaiting |-> NoItem,
               wakeAt |-> 0,
               delay |-> Zero,
               writing |-> FALSE,
               buffered |-> <<>>,
               ending |-> FALSE,
               endEmitted |-> FALSE,
               endedWhileWriting |-> FALSE,
               rejected |-> 0,
               pushed |-> <<>>,
               called |-> <<>>]

\* mutant of BurstFits: the chunk is not compared with what is left of the burst
BurstFitsUnchecked(c, chunkSize) ==
    /\ burstSize > 0
    /\ c.burstBytesUsed < burstSize

\* the burst branch of _calculateDelay: taken or not
BurstFits(c, chunkSize) ==
    /\ burstSize > 0
    /\ c.burstBytesUsed < burstSize
    /\ chunkSize <= burstSize - c.burstBytesUsed

\* a rate branch that never caps the delay
RateDelayUncapped(c, chunkSize, bps) ==
    LET elapsed == now - startTime
        excess == (c.bytesWritten + chunkSize) * 1000 * RateScale - elapsed * bps
    IN  IF elapsed = 0 THEN Zero
        ELSE IF excess <= 0 THEN Zero
        ELSE Frac(excess, bps)

\* the rate branch of _calculateDelay at rate bps: delayMs before smoothing,
\* (bytesWritten + chunkSize - elapsed / 1000 * bps) / bps * 1000
RateDelay(c, chunkSize, bps) ==
    LET elapsed == now - startTime
        \* excessBytes * 1000 * RateScale
        excess == (c.bytesWritten + chunkSize) * 1000 * RateScale - elapsed * bps
    IN  IF elapsed = 0 THEN Zero
        ELSE IF excess <= 0 THEN Zero
        ELSE IF smoothing THEN FracMin(Frac(excess, bps), SmoothingCap)
        ELSE Frac(excess, bps)

\* a _calculateDelay that tries the burst allowance before the fixed delay
calculateDelayBurstFirst(c, chunkSize) ==
    IF BurstFits(c, chunkSize)
    THEN [delay |-> Zero, burstBytesUsed |-> c.burstBytesUsed + chunkSize]
    ELSE IF chunkDelay > 0
    THEN [delay |-> Frac(Max(0, chunkDelay - (now - c.lastChunkTime)), 1),
          burstBytesUsed |-> c.burstBytesUsed]
    ELSE [delay |-> RateDelay(c, chunkSize, bytesPerSecond),
          burstBytesUsed |-> c.burstBytesUsed]

\* _calculateDelay(chunkSize), called now: the delay returned and the new
\* burstBytesUsed
calculateDelay(c, chunkSize) ==
    IF chunkDelay > 0
    THEN LET timeSinceLastChunk == now - c.lastChunkTime
         IN  [delay |-> Frac(Max(0, chunkDelay - timeSinceLastChunk), 1),
              burstBytesUsed |-> c.burstBytesUsed]
    ELSE IF BurstFits(c, chunkSize)
    THEN [delay |-> Zero, burstBytesUsed |-> c.burstBytesUsed + chunkSize]
    ELSE [delay |-> RateDelay(c, chunkSize, bytesPerSecond),
          burstBytesUsed |-> c.burstBytesUsed]

\* stats.avgDelay = (stats.avgDelay * (stats.delays - 1) + delay) / stats.delays,
\* with delays already incremented
NewAvgDelay(avg, delays, delay) ==
    Frac(avg.n * (delays - 1) * delay.d + delay.n * avg.d, avg.d * delay.d * delays)

\* an enqueue that calls the callback of the chunk at once
EnqueueAcknowledged(c, item) ==
    [c EXCEPT !.stats.totalBytes = @ + item.size,
              !.stats.totalChunks = @ + 1,
              !.queue = Append(@, item),
              !.called = Append(@, item.chunk)]

\* this.queue.push({chunk, callback, size, timestamp}) and the counters of
\* _transform
Enqueue(c, item) ==
    [c EXCEPT !.stats.totalBytes = @ + item.size,
              !.stats.totalChunks = @ + 1,
              !.queue = Append(@, item)]

\* mutant of Release: a chunk that slept is not pushed
ReleaseUndelayedOnly(c, item) ==
    [c EXCEPT !.bytesWritten = @ + item.size,
              !.lastChunkTime = now,
              !.pushed = IF item.timestamp < now THEN @ ELSE Append(@, item.chunk)]

\* this.bytesWritten += item.size; this.lastChunkTime = Date.now();
\* this.push(item.chunk)
Release(c, item) ==
    [c EXCEPT !.bytesWritten = @ + item.size,
              !.lastChunkTime = now,
              !.pushed = Append(@, item.chunk)]

\* const item = this.queue.shift()
Shift(c) == [c EXCEPT !.queue = Tail(@)]

\* the suspension of _processQueue at `await this._delay(delay)` for item
Suspend(c, item, delay) ==
    [c EXCEPT !.stats.delays = @ + 1,
              !.stats.avgDelay = NewAvgDelay(@, c.stats.delays + 1, delay),
              !.awaiting = item,
              !.wakeAt = now + CeilMs(delay),
              !.delay = delay]

RECURSIVE ProcessLoop(_), Transform(_, _)

\* item.callback(): the stream takes the write as done and hands the next
\* buffered write, if any, to _transform; after the last write of a stream
\* that end() was called on, 'end' is emitted before any timer runs
Callback(c, item) ==
    LET done == [c EXCEPT !.called = Append(@, item.chunk), !.writing = FALSE] IN
    IF Len(done.buffered) = 0 THEN [done EXCEPT !.endEmitted = done.ending]
    ELSE Transform([done EXCEPT !.buffered = Tail(@), !.writing = TRUE],
                   Head(done.buffered))

\* _processQueue() from the test of its while loop to its next await or its
\* end
ProcessLoop(c) ==
    IF Len(c.queue) = 0 THEN [c EXCEPT !.processing = FALSE]
    ELSE LET item == Head(c.queue)
             r == calculateDelay(c, item.size)
             c1 == [Shift(c) EXCEPT !.burstBytesUsed = r.burstBytesUsed]
         IN  IF Positive(r.delay) THEN Suspend(c1, item, r.delay)
             ELSE ProcessLoop(Callback(Release(c1, item), item))

\* _processQueue(), called
processQueue(c) == ProcessLoop([c EXCEPT !.processing = TRUE])

\* a _transform that starts _processQueue whether one is running or not
TransformUnguarded(c, chunk) ==
    LET item == [chunk |-> chunk.chunk, size |-> chunk.size, timestamp |-> now]
    IN  processQueue(Enqueue(c, item))

\* _transform(chunk, encoding, callback), called now; chunk is [chunk, size]
Transform(c, chunk) ==
    LET item == [chunk |-> chunk.chunk, size |-> chunk.size, timestamp |-> now]
        c1 == Enqueue(c, item)
    IN  IF ~c1.processing THEN processQueue(c1) ELSE c1

\* a continuation that releases the item and never calls its callback
ResumeWithoutCallback(c) ==
    LET item == c.awaiting
        c1 == [c EXCEPT !.awaiting = NoItem, !.delay = Zero]
    IN  ProcessLoop(Release(c1, item))

\* the continuation of _processQueue after `await this._delay(delay)`
Resume(c) ==
    LET item == c.awaiting
        c1 == [c EXCEPT !.awaiting = NoItem, !.delay = Zero]
    IN  ProcessLoop(Callback(Release(c1, item), item))

\* no getStats() result
NoStats == [totalBytes |-> -1]

\* mutant of getStats: startTime is read from the clock
getStatsStartNow ==
    LET st == chan.stats
        duration == now - st.startTime
        actualN == IF duration > 0 THEN st.totalBytes * 1000 ELSE 0
        actualD == IF duration > 0 THEN duration ELSE 1
    IN  [totalBytes |-> st.totalBytes,
         totalChunks |-> st.totalChunks,
         delays |-> st.delays,
         avgDelay |-> st.avgDelay,
         startTime |-> now,
         duration |-> duration,
         actualBytesPerSecond |-> Round(actualN, actualD),
         targetBytesPerSecond |-> bytesPerSecond,
         efficiency |-> IF bytesPerSecond > 0
                        THEN Frac(actualN * 100 * RateScale, actualD * bytesPerSecond)
                        ELSE Zero,
         queueSize |-> Len(chan.queue)]

\* getStats(), called now
getStats ==
    LET st == chan.stats
        duration == now - st.startTime
        \* actualBytesPerSecond = totalBytes / duration * 1000
        actualN == IF duration > 0 THEN st.totalBytes * 1000 ELSE 0
        actualD == IF duration > 0 THEN duration ELSE 1
    IN  [totalBytes |-> st.totalBytes,
         totalChunks |-> st.totalChunks,
         delays |-> st.delays,
         avgDelay |-> st.avgDelay,
         startTime |-> st.startTime,
         duration |-> duration,
         actualBytesPerSecond |-> Round(actualN, actualD),
         targetBytesPerSecond |-> bytesPerSecond,
         efficiency |-> IF bytesPerSecond > 0
                        THEN Frac(actualN * 100 * RateScale, actualD * bytesPerSecond)
                        ELSE Zero,
         queueSize |-> Len(chan.queue)]

\* stream.write(chunk) by the producer, now: the chunk goes to _transform, or
\* waits for the callback of the write in progress
Write(size) ==
    /\ Len(written) < MaxChunks
    /\ ~chan.ending
    /\ written' = Append(written, size)
    /\ LET chunk == [chunk |-> Len(written) + 1, size |-> size] IN
       chan' = IF chan.writing
               THEN [chan EXCEPT !.buffered = Append(@, chunk)]
               ELSE Transform([chan EXCEPT !.writing = TRUE], chunk)
    /\ snapshot' = NoStats
    /\ UNCHANGED <<now, bytesPerSecond, chunkDelay, burstSize, smoothing, startTime, ticks>>
    /\ UNCHANGED <<limiterVars, adaptiveVars>>

\* stream.end() by the producer: 'end' is emitted once every write is done
End ==
    /\ ~chan.ending
    /\ chan' = [chan EXCEPT !.ending = TRUE,
                            !.endEmitted = ~chan.writing /\ Len(chan.buffered) = 0,
                            !.endedWhileWriting = chan.writing]
    /\ UNCHANGED <<now, bytesPerSecond, chunkDelay, burstSize, smoothing, startTime,
                   written, ticks, snapshot>>
    /\ UNCHANGED <<limiterVars, adaptiveVars>>

\* a write after end() that the stream takes like any other write
WriteAfterEndAccepted(size) ==
    /\ chan.ending
    /\ Len(written) + chan.rejected < MaxChunks
    /\ LET chunk == [chunk |-> Len(written) + chan.rejected + 1, size |-> size]
           c == [chan EXCEPT !.rejected = @ + 1]
       IN  chan' = IF c.writing
                   THEN [c EXCEPT !.buffered = Append(@, chunk)]
                   ELSE Transform([c EXCEPT !.writing = TRUE], chunk)
    /\ UNCHANGED <<now, bytesPerSecond, chunkDelay, burstSize, smoothing, startTime,
                   written, ticks, snapshot>>
    /\ UNCHANGED <<limiterVars, adaptiveVars>>

\* stream.write(chunk) by the producer after stream.end(): the Writable side
\* of the Transform refuses the chunk with 'write after end' before
\* _transform is called, and the stream is destroyed with that error
WriteAfterEnd(size) ==
    /\ chan.ending
    /\ Len(written) + chan.rejected < MaxChunks
    /\ chan' = [chan EXCEPT !.rejected = @ + 1]
    /\ UNCHANGED <<now, bytesPerSecond, chunkDelay, burstSize, smoothing, startTime,
                   written, ticks, snapshot>>
    /\ UNCHANGED <<limiterVars, adaptiveVars>>

\* a caller reads getStats(), now
GetStats ==
    /\ snapshot' = getStats
    /\ UNCHANGED <<now, bytesPerSecond, chunkDelay, burstSize, smoothing, startTime, chan,
                   written, ticks>>
    /\ UNCHANGED <<limiterVars, adaptiveVars>>

\* the timer of _delay(ms) runs: _processQueue goes on after its await
Wake ==
    /\ chan.awaiting # NoItem
    /\ now >= chan.wakeAt
    /\ chan' = Resume(chan)
    /\ snapshot' = NoStats
    /\ UNCHANGED <<now, bytesPerSecond, chunkDelay, burstSize, smoothing, startTime,
                   written, ticks>>
    /\ UNCHANGED <<limiterVars, adaptiveVars>>

\* the clock advances between two callbacks
ThrottleTick ==
    /\ ticks < MaxTicks
    /\ \E d \in TickSteps : now' = now + d
    /\ ticks' = ticks + 1
    /\ UNCHANGED <<bytesPerSecond, chunkDelay, burstSize, smoothing, startTime, chan,
                   written, snapshot>>
    /\ UNCHANGED <<limiterVars, adaptiveVars>>

\* no adaptiveThrottle request is in progress
NoAdaptive ==
    /\ baseBytesPerSecond = 0
    /\ adaptationFactor = 0
    /\ loadThreshold = 0
    /\ currentBytesPerSecond = 0
    /\ adaptations = <<>>
    /\ handler = "none"
    /\ intervalDue = 0
    /\ samples = <<>>

\* no ThrottleStream is in use
NoThrottle ==
    /\ ThrottleStreamNew(0, 0, 0, TRUE)
    /\ written = <<>>
    /\ ticks = 0
    /\ snapshot = NoStats

(***************************************************************************)
(* class RateLimiter                                                       *)
(***************************************************************************)
\* options.windowSize || 1000
DefaultWindowSize == 1000

\* constructor(options)
RateLimiterNew(rps, ws, bl) ==
    /\ requestsPerSecond = rps
    /\ windowSize = (IF ws = 0 THEN DefaultWindowSize ELSE ws)
    /\ burstLimit = bl
    /\ requests = <<>>
    /\ burstUsed = 0

\* this.requests.filter(time => now - time < this.windowSize)
CleanOld(reqs, t) == SelectSeq(reqs, LAMBDA time : t - time < windowSize)

\* the burst branch of isAllowed: taken or not
BurstAllowed(used) == burstLimit > 0 /\ used < burstLimit

\* mutant of RateAllowed: a full window still admits one call
RateAllowedOneMore(reqs) == Len(reqs) <= requestsPerSecond

\* the rate branch of isAllowed: taken or not, on the cleaned list
RateAllowed(reqs) == Len(reqs) < requestsPerSecond

\* isAllowed() at time t from the state (reqs, used): the new list, the new
\* burst count and the value returned
isAllowedAt(reqs, used, t) ==
    LET cleaned == CleanOld(reqs, t) IN
    IF BurstAllowed(used)
    THEN [requests |-> Append(cleaned, t), burstUsed |-> used + 1, allowed |-> TRUE]
    ELSE IF RateAllowed(cleaned)
    THEN [requests |-> Append(cleaned, t), burstUsed |-> used, allowed |-> TRUE]
    ELSE [requests |-> cleaned, burstUsed |-> used, allowed |-> FALSE]

\* isAllowed(), called now
isAllowed ==
    /\ calls < MaxCalls
    /\ LET r == isAllowedAt(requests, burstUsed, now) IN
        /\ requests' = r.requests
        /\ burstUsed' = r.burstUsed
        /\ lastAllowed' = (IF r.allowed THEN "true" ELSE "false")
        /\ accepted' = (IF r.allowed THEN Append(accepted, now) ELSE accepted)
    /\ calls' = calls + 1
    /\ UNCHANGED <<now, requestsPerSecond, windowSize, burstLimit, freshAt, resets,
                   demo>>
    /\ UNCHANGED <<throttleVars, adaptiveVars>>

\* mutant of getTimeUntilNext: the difference is returned without Math.max(0, ...)
getTimeUntilNextUnclamped ==
    IF Len(requests) = 0 THEN 0
    ELSE LET oldestRequest == MinOf(requests)
             nextAvailable == oldestRequest + windowSize
         IN  nextAvailable - now

\* getTimeUntilNext(), called now
getTimeUntilNext ==
    IF Len(requests) = 0 THEN 0
    ELSE LET oldestRequest == MinOf(requests)
             nextAvailable == oldestRequest + windowSize
         IN  Max(0, nextAvailable - now)

\* reset()
reset ==
    /\ resets < MaxResets
    /\ requests' = <<>>
    /\ burstUsed' = 0
    /\ lastAllowed' = "none"
    /\ accepted' = <<>>
    /\ calls' = 0
    /\ freshAt' = now
    /\ resets' = resets + 1
    /\ UNCHANGED <<now, requestsPerSecond, windowSize, burstLimit, demo>>
    /\ UNCHANGED <<throttleVars, adaptiveVars>>

\* the clock advances between two calls
LimiterTick ==
    /\ now < MaxTime
    /\ now' = now + 1
    /\ UNCHANGED <<limiterVars, throttleVars, adaptiveVars>>

\* no rateLimiting request is being served
NoDemo ==
    [phase |-> "none", startTime |-> 0, endTime |-> [nan |-> FALSE, ms |-> 0],
     due |-> 0, requestCount |-> 0, allowedCount |-> 0, blockedCount |-> 0,
     results |-> <<>>, replies |-> 0]

InitLimiter ==
    /\ now = 0
    /\ \E rps \in RequestsPerSecondOpts, ws \in WindowSizeOpts, bl \in BurstLimitOpts :
          RateLimiterNew(rps, ws, bl)
    /\ lastAllowed = "none"
    /\ accepted = <<>>
    /\ calls = 0
    /\ freshAt = 0
    /\ resets = 0
    /\ demo = NoDemo
    /\ NoThrottle
    /\ NoAdaptive

NextLimiter == isAllowed \/ reset \/ LimiterTick

SpecLimiter == InitLimiter /\ [][NextLimiter]_vars

(***************************************************************************)
(* rateLimiting: a RateLimiter built from the query and an interval that   *)
(* calls isAllowed() every IntervalPeriod ms until Date.now() >= endTime.   *)
(***************************************************************************)

\* the period of setInterval(..., 100)
IntervalPeriod == 100

\* windowSize of the query, in ms
DemoWindowSizeOpts == {0, 200, 1000}

\* parseInt(testDuration): a number of ms, or NaN for a text without digits
TestDurationOpts ==
    {[nan |-> FALSE, ms |-> 0], [nan |-> FALSE, ms |-> 300], [nan |-> TRUE, ms |-> 0]}

\* startTime + parseInt(testDuration): NaN when the duration is NaN
EndTimeOf(start, duration) ==
    IF duration.nan THEN duration ELSE [nan |-> FALSE, ms |-> start + duration.ms]

\* now >= endTime: false when endTime is NaN
ReachedEndTime == ~demo.endTime.nan /\ now >= demo.endTime.ms

\* one run of the callback of testInterval
TestInterval ==
    /\ demo.phase = "running"
    /\ now >= demo.due
    /\ IF ReachedEndTime
       THEN /\ demo' = [demo EXCEPT !.phase = "replied", !.replies = @ + 1]
            /\ UNCHANGED <<now, requestsPerSecond, windowSize, burstLimit, requests,
                           burstUsed, lastAllowed, accepted, calls, freshAt, resets>>
       ELSE /\ calls < MaxCalls
            /\ UNCHANGED <<now, requestsPerSecond, windowSize, burstLimit, freshAt,
                           resets>>
            /\ LET r == isAllowedAt(requests, burstUsed, now) IN
                /\ requests' = r.requests
                /\ burstUsed' = r.burstUsed
                /\ lastAllowed' = (IF r.allowed THEN "true" ELSE "false")
                /\ accepted' = (IF r.allowed THEN Append(accepted, now) ELSE accepted)
                /\ calls' = calls + 1
                /\ demo' = [demo EXCEPT
                        !.requestCount = @ + 1,
                        !.allowedCount = IF r.allowed THEN @ + 1 ELSE @,
                        !.blockedCount = IF r.allowed THEN @ ELSE @ + 1,
                        !.results = Append(@,
                            [timestamp |-> now - demo.startTime,
                             requestId |-> demo.requestCount + 1,
                             allowed |-> r.allowed,
                             timeUntilNext |-> getTimeUntilNext']),
                        !.due = now + IntervalPeriod]
    /\ UNCHANGED <<throttleVars, adaptiveVars>>

\* the clock advances by one period of the interval
DemoTick ==
    /\ now < MaxTime * IntervalPeriod
    /\ now' = now + IntervalPeriod
    /\ UNCHANGED <<limiterVars, throttleVars, adaptiveVars>>

InitRateDemo ==
    /\ now = 0
    /\ \E rps \in RequestsPerSecondOpts, ws \in DemoWindowSizeOpts, bl \in BurstLimitOpts :
          RateLimiterNew(rps, ws, bl)
    /\ lastAllowed = "none"
    /\ accepted = <<>>
    /\ calls = 0
    /\ freshAt = 0
    /\ resets = 0
    /\ \E duration \in TestDurationOpts :
          demo = [NoDemo EXCEPT !.phase = "running",
                                !.endTime = EndTimeOf(0, duration),
                                !.due = IntervalPeriod]
    /\ NoThrottle
    /\ NoAdaptive

NextRateDemo == TestInterval \/ DemoTick

\* the timers of Node run when they are due and the clock goes on
SpecRateDemo ==
    InitRateDemo /\ [][NextRateDemo]_vars /\ WF_vars(TestInterval) /\ WF_vars(DemoTick)

\* no RateLimiter is in use
NoLimiter ==
    /\ RateLimiterNew(0, 0, 0)
    /\ lastAllowed = "none"
    /\ accepted = <<>>
    /\ calls = 0
    /\ freshAt = 0
    /\ resets = 0
    /\ demo = NoDemo

(***************************************************************************)
(* A ThrottleStream with any options, a producer that writes chunks at any *)
(* time and a consumer that takes every chunk pushed.                      *)
(***************************************************************************)
InitThrottle ==
    /\ now = 0
    /\ \E b \in BytesPerSecondOpts, d \in ChunkDelayOpts, u \in BurstSizeOpts,
          s \in BOOLEAN : ThrottleStreamNew(b, d, u, s)
    /\ written = <<>>
    /\ ticks = 0
    /\ snapshot = NoStats
    /\ NoLimiter
    /\ NoAdaptive

NextThrottle ==
    \/ \E size \in ChunkSizes : Write(size)
    \/ End
    \/ Wake
    \/ ThrottleTick

SpecThrottle == InitThrottle /\ [][NextThrottle]_vars

(***************************************************************************)
(* A ThrottleStream without burst allowance and with smoothing, as the     *)
(* basic and the adaptive endpoint make it, a producer and a caller that   *)
(* reads getStats() at any time.                                           *)
(***************************************************************************)
InitStats ==
    /\ now = 0
    /\ \E b \in BytesPerSecondOpts, d \in ChunkDelayOpts : ThrottleStreamNew(b, d, 0, TRUE)
    /\ written = <<>>
    /\ ticks = 0
    /\ snapshot = NoStats
    /\ NoLimiter
    /\ NoAdaptive

NextStats ==
    \/ \E size \in ChunkSizes : Write(size)
    \/ End
    \/ Wake
    \/ ThrottleTick
    \/ GetStats

SpecStats == InitStats /\ [][NextStats]_vars

(***************************************************************************)
(* A ThrottleStream with a fixed chunkDelay and a producer that writes     *)
(* chunks of one byte and chunks larger than LIMITS.MAX_CHUNK_SIZE.        *)
(***************************************************************************)
InitLarge ==
    /\ now = 0
    /\ \E s \in BOOLEAN : ThrottleStreamNew(1000, 2000, 0, s)
    /\ written = <<>>
    /\ ticks = 0
    /\ snapshot = NoStats
    /\ NoLimiter
    /\ NoAdaptive

NextLarge ==
    \/ \E size \in LargeChunkSizes : Write(size)
    \/ End
    \/ Wake
    \/ ThrottleTick

SpecLarge == InitLarge /\ [][NextLarge]_vars

(***************************************************************************)
(* A ThrottleStream and a producer that goes on writing after end().  No   *)
(* 'error' listener is set on the stream: once a write is refused the      *)
(* stream is destroyed, the error is uncaught, and no timer of _delay runs *)
(* any more.                                                               *)
(***************************************************************************)
NextClosed ==
    \/ \E size \in ChunkSizes : Write(size)
    \/ End
    \/ (chan.rejected = 0 /\ Wake)
    \/ ThrottleTick
    \/ \E size \in ChunkSizes : WriteAfterEnd(size)

SpecClosed == InitStats /\ [][NextClosed]_vars

(***************************************************************************)
(* adaptiveThrottle: one request to the adaptive endpoint.  The handler    *)
(* makes the stream and the interval, writes the body as one chunk and     *)
(* ends the stream; adaptInterval runs every SamplePeriod milliseconds     *)
(* until the 'end' listener clears it.                                     *)
(***************************************************************************)
\* setInterval(..., 500)
SamplePeriod == 500
\* Math.max(100, ...)
FloorRate == 100
\* simulatedLoad < 0.3, in hundredths
LowLoad == 30

\* a high load that raises the rate instead of lowering it
HighLoadRateRaised(current) ==
    Max(FloorRate * RateScale, (current * (2 + adaptationFactor)) \div 2)

\* the rate a high load gives: Math.max(100, current * (1 - adaptationFactor))
HighLoadRate(current) ==
    Max(FloorRate * RateScale, (current * (2 - adaptationFactor)) \div 2)

\* the rate a low load gives:
\* Math.min(parseInt(baseBytesPerSecond) * 2, current * (1 + adaptationFactor))
LowLoadRate(current) ==
    Min(baseBytesPerSecond * 2 * RateScale, (current * (2 + adaptationFactor)) \div 2)

\* the record pushed to adaptations
Adaptation(newRate, reason, load) ==
    [timestamp |-> now - startTime,
     oldRate |-> currentBytesPerSecond,
     newRate |-> Round(newRate, RateScale),
     reason |-> reason,
     load |-> load]

\* the 'end' listener has run or not, after a callback that left the stream c
Replied(c) == IF c.endEmitted THEN "replied" ELSE "running"

\* throttle.write(input); throttle.end(), at the end of the handler
AdaptiveWriteEnd ==
    /\ handler = "created"
    /\ \E size \in InputSizes :
        /\ written' = Append(written, size)
        /\ LET c1 == Transform([chan EXCEPT !.writing = TRUE], [chunk |-> 1, size |-> size])
               c2 == [c1 EXCEPT !.ending = TRUE,
                                !.endEmitted = ~c1.writing /\ Len(c1.buffered) = 0,
                                !.endedWhileWriting = c1.writing]
           IN  /\ chan' = c2
               /\ handler' = Replied(c2)
    /\ UNCHANGED <<now, bytesPerSecond, chunkDelay, burstSize, smoothing, startTime,
                   ticks, snapshot>>
    /\ UNCHANGED <<baseBytesPerSecond, adaptationFactor, loadThreshold,
                   currentBytesPerSecond, adaptations, intervalDue, samples>>
    /\ UNCHANGED limiterVars

\* a timer that is due when a delay computed again, at the rate of the stream
\* now and for the time the chunk was taken from the queue, has passed
AdaptiveWakeRecomputed ==
    /\ handler = "running"
    /\ chan.awaiting # NoItem
    /\ LET item == chan.awaiting
           excess == item.size * 1000 * RateScale
                        - (item.timestamp - startTime) * bytesPerSecond
       IN  \/ bytesPerSecond <= 0
           \/ excess <= 0
           \/ now >= item.timestamp
                        + CeilMs(FracMin(Frac(excess, bytesPerSecond), SmoothingCap))
    /\ chan' = Resume(chan)
    /\ handler' = Replied(chan')
    /\ UNCHANGED <<now, bytesPerSecond, chunkDelay, burstSize, smoothing, startTime,
                   written, ticks, snapshot>>
    /\ UNCHANGED <<baseBytesPerSecond, adaptationFactor, loadThreshold,
                   currentBytesPerSecond, adaptations, intervalDue, samples>>
    /\ UNCHANGED limiterVars

\* the timer of _delay(ms) runs: the chunk is released and 'end' is emitted
AdaptiveWake ==
    /\ handler = "running"
    /\ chan.awaiting # NoItem
    /\ now >= chan.wakeAt
    /\ chan' = Resume(chan)
    /\ handler' = Replied(chan')
    /\ UNCHANGED <<now, bytesPerSecond, chunkDelay, burstSize, smoothing, startTime,
                   written, ticks, snapshot>>
    /\ UNCHANGED <<baseBytesPerSecond, adaptationFactor, loadThreshold,
                   currentBytesPerSecond, adaptations, intervalDue, samples>>
    /\ UNCHANGED limiterVars

\* a decision that takes every load that is not high as low
ReasonLowOtherwise(load) ==
    IF load > loadThreshold THEN "High load detected" ELSE "Low load detected"

\* the branch adaptInterval takes for simulatedLoad = load: the reason it
\* records, or "none" when it changes nothing
Reason(load) ==
    IF load > loadThreshold THEN "High load detected"
    ELSE IF load < LowLoad THEN "Low load detected"
    ELSE "none"

\* one run of adaptInterval, with simulatedLoad = load
AdaptInterval(load) ==
    /\ handler = "running"
    /\ now >= intervalDue
    /\ Len(samples) < MaxAdaptations
    /\ samples' = Append(samples, load)
    /\ intervalDue' = now + SamplePeriod
    /\ IF Reason(load) = "High load detected"
       THEN LET newRate == HighLoadRate(currentBytesPerSecond) IN
            /\ adaptations' = Append(adaptations,
                                     Adaptation(newRate, "High load detected", load))
            /\ currentBytesPerSecond' = newRate
            /\ bytesPerSecond' = newRate
       ELSE IF Reason(load) = "Low load detected"
       THEN LET newRate == LowLoadRate(currentBytesPerSecond) IN
            /\ adaptations' = Append(adaptations,
                                     Adaptation(newRate, "Low load detected", load))
            /\ currentBytesPerSecond' = newRate
            /\ bytesPerSecond' = newRate
       ELSE UNCHANGED <<adaptations, currentBytesPerSecond, bytesPerSecond>>
    /\ UNCHANGED <<now, chunkDelay, burstSize, smoothing, startTime, chan, written,
                   ticks, snapshot>>
    /\ UNCHANGED <<baseBytesPerSecond, adaptationFactor, loadThreshold, handler>>
    /\ UNCHANGED limiterVars

\* the clock advances between two callbacks; within the handler, between the
\* constructor and write(), by a millisecond at most
AdaptiveTick ==
    /\ handler # "none"
    /\ ticks < MaxTicks
    /\ \E d \in {1, SamplePeriod} :
        /\ handler = "created" => (d = 1 /\ now = startTime)
        /\ now' = now + d
    /\ ticks' = ticks + 1
    /\ UNCHANGED <<bytesPerSecond, chunkDelay, burstSize, smoothing, startTime, chan,
                   written, snapshot>>
    /\ UNCHANGED <<limiterVars, adaptiveVars>>

\* the handler up to setInterval: the query is parsed, the stream is made
\* with the base rate and smoothing, the interval is set
InitAdaptive ==
    /\ now = 0
    /\ \E b \in BaseBytesPerSecondOpts, f \in AdaptationFactorOpts,
          t \in LoadThresholdOpts :
        /\ baseBytesPerSecond = b
        /\ adaptationFactor = f
        /\ loadThreshold = t
        /\ currentBytesPerSecond = b * RateScale
        /\ ThrottleStreamNew(b, 0, 0, TRUE)
    /\ adaptations = <<>>
    /\ handler = "created"
    /\ intervalDue = now + SamplePeriod
    /\ samples = <<>>
    /\ written = <<>>
    /\ ticks = 0
    /\ snapshot = NoStats
    /\ NoLimiter

NextAdaptive ==
    \/ AdaptiveWriteEnd
    \/ AdaptiveWake
    \/ \E load \in Loads : AdaptInterval(load)
    \/ AdaptiveTick

SpecAdaptive == InitAdaptive /\ [][NextAdaptive]_vars

(***************************************************************************)
(* Claims about the RateLimiter, checked under SpecLimiter.                *)
(***************************************************************************)
\* the calls that returned true at a time in the window [s, s + windowSize)
AcceptedInWindow(s) ==
    {i \in DOMAIN accepted : accepted[i] >= s /\ accepted[i] < s + windowSize}

\* C3: since construction (or the last reset), in every rolling window of
\* windowSize milliseconds at most requestsPerSecond + burstLimit calls of
\* isAllowed returned true.
C3_RollingWindowBound ==
    \A s \in 0..MaxTime :
        Cardinality(AcceptedInWindow(s)) <= requestsPerSecond + burstLimit

\* C3 witness: with a capacity and a burst limit, a call has been rejected
\* because the window was full, and an earlier accepted call has aged out.
C3_Witness ==
    /\ requestsPerSecond > 0
    /\ burstLimit > 0
    /\ lastAllowed = "false"
    /\ Len(requests) = requestsPerSecond
    /\ Len(accepted) > Len(requests)

\* C4 (as claimed): getTimeUntilNext() is 0 exactly when isAllowed() called at
\* the same instant would return true.
C4_ZeroIffAllowed ==
    (getTimeUntilNext = 0) <=> isAllowedAt(requests, burstUsed, now).allowed

\* C5: getTimeUntilNext() is never negative.
C5_TimeUntilNextNonNegative == getTimeUntilNext >= 0

\* C5 witness: timestamps are stored and all of them are older than the
\* window (nextAvailable - now is negative), and getTimeUntilNext() is 0.
C5_Witness ==
    /\ Len(requests) > 0
    /\ \A i \in DOMAIN requests : requests[i] + windowSize < now
    /\ getTimeUntilNext = 0

\* C9 (as claimed): on a fresh limiter, calls made with no time elapsed are
\* accepted min(calls, requestsPerSecond + burstLimit) times.
C9_FreshAcceptsCapacityPlusBurst ==
    (now = freshAt) => Len(accepted) = Min(calls, requestsPerSecond + burstLimit)

\* C11 (as claimed): a limiter with requestsPerSecond = 0 rejects every call,
\* whatever burstLimit is.
C11_ZeroCapacityRejectsAll ==
    (requestsPerSecond = 0) => Len(accepted) = 0

\* C20 (as claimed): once every stored timestamp has aged out of the window,
\* burst credit is available again.
C20_BurstRefilledWhenWindowEmpties ==
    (burstLimit > 0 /\ \A i \in DOMAIN requests : now - requests[i] >= windowSize)
        => BurstAllowed(burstUsed)

\* C10 (as claimed): after every isAllowed() decision at most requestsPerSecond
\* timestamps are stored.
C10_StoredAtMostCapacity ==
    (lastAllowed # "none") => Len(requests) <= requestsPerSecond

(***************************************************************************)
(* Claims about the ThrottleStream, checked under SpecThrottle.            *)
(***************************************************************************)
\* the chunks written and not yet pushed, in the order the stream holds them
Pending ==
    (IF chan.awaiting # NoItem THEN <<chan.awaiting.chunk>> ELSE <<>>)
    \o [i \in 1..Len(chan.queue) |-> chan.queue[i].chunk]
    \o [i \in 1..Len(chan.buffered) |-> chan.buffered[i].chunk]

\* C1: the chunks pushed to the consumer, followed by the chunks still held,
\* are the chunks written, each once and in the order written.
C1_ReleaseOrderIsEnqueueOrder ==
    chan.pushed \o Pending = [i \in 1..Len(written) |-> i]

\* C1 witness: in rate mode a chunk has been pushed, the next one sleeps and a
\* third one waits behind it.
C1_Witness ==
    /\ chunkDelay = 0
    /\ Len(chan.pushed) >= 1
    /\ chan.awaiting # NoItem
    /\ Len(chan.buffered) >= 1

\* C2: burstBytesUsed never exceeds burstSize.
C2_BurstUsedAtMostBurstSize == chan.burstBytesUsed <= burstSize

\* C2 witness: part of the burst is used and the chunk that sleeps did not fit
\* in what is left of it.
C2_Witness ==
    /\ chan.burstBytesUsed > 0
    /\ chan.burstBytesUsed < burstSize
    /\ chan.awaiting # NoItem
    /\ chan.awaiting.size > burstSize - chan.burstBytesUsed

(***************************************************************************)
(* Claims about getStats(), checked under SpecStats.                       *)
(***************************************************************************)
\* the fields of a getStats() result that are not computed from the clock
Counters(st) ==
    [totalBytes |-> st.totalBytes,
     totalChunks |-> st.totalChunks,
     delays |-> st.delays,
     avgDelay |-> st.avgDelay,
     startTime |-> st.startTime,
     targetBytesPerSecond |-> st.targetBytesPerSecond,
     queueSize |-> st.queueSize]

\* C8 (as claimed): a getStats() call that follows another one with no chunk
\* enqueued or released in between returns the same value in every field.
C8_StatsIdentical ==
    (snapshot # NoStats) => getStats = snapshot

\* C8 (amended): a getStats() call that follows another one with no chunk
\* enqueued or released in between returns the same totalBytes, totalChunks,
\* delays, avgDelay, startTime, targetBytesPerSecond and queueSize, and, when
\* the clock reads the same as at the first call, the same value in every
\* field.
C8_StatsIdenticalButClock ==
    (snapshot # NoStats) =>
        /\ Counters(getStats) = Counters(snapshot)
        /\ (now - snapshot.startTime = snapshot.duration) => getStats = snapshot

\* C8 witness: the clock has advanced since a getStats() call made after a
\* chunk was delayed, and duration and actualBytesPerSecond read differently.
C8_Witness ==
    /\ snapshot # NoStats
    /\ snapshot.delays > 0
    /\ getStats.duration > snapshot.duration
    /\ getStats.actualBytesPerSecond # snapshot.actualBytesPerSecond

\* C26 (as claimed): totalBytes and totalChunks of getStats() are the bytes and
\* the number of the chunks pushed so far.
C26_StatsCountReleased ==
    /\ getStats.totalBytes = chan.bytesWritten
    /\ getStats.totalChunks = Len(chan.pushed)

\* every chunk written has been pushed and its callback called
Drained ==
    /\ Len(chan.pushed) = Len(written)
    /\ Len(chan.called) = Len(written)
    /\ chan.awaiting = NoItem
    /\ Len(chan.queue) = 0
    /\ Len(chan.buffered) = 0

\* C15: 'end' is emitted only when every chunk written before end() has been
\* pushed; and while end() has been called and 'end' is not yet emitted, the
\* drain is not stuck: _processQueue holds a chunk whose timer is set, and the
\* callback of that timer releases it.
C15_EndAfterDrain ==
    /\ chan.endEmitted => Drained
    /\ (chan.ending /\ ~chan.endEmitted) =>
            /\ chan.awaiting # NoItem
            /\ chan.processing
            /\ chan.writing

\* C15 witness: end() was called during a write, a chunk has waited for its
\* timer, and 'end' has been emitted after all three chunks were pushed.
C15_Witness ==
    /\ chan.endedWhileWriting
    /\ chan.endEmitted
    /\ Len(written) = 3
    /\ chan.pushed = <<1, 2, 3>>
    /\ chan.stats.delays > 1

\* a wall-clock limit for a run: the longest delay of a smoothed stream and one
\* sample period of the adaptive endpoint more
RunTimeLimit == SmoothingCap + SamplePeriod

\* C21 (as claimed): a run whose wall-clock timeout has expired has ended
\* through abort(): once the producer has called end() and more than the
\* run-time limit has passed since the construction, the drain loop holds no
\* chunk, no write waits, and completion has been signalled.
C21_RunAbortedAtTimeout ==
    (chan.ending /\ now - startTime > RunTimeLimit) =>
        /\ chan.awaiting = NoItem
        /\ Len(chan.buffered) = 0
        /\ chan.endEmitted

\* C22: between two callbacks _processQueue is running exactly when it is
\* suspended at its await, holding the one chunk that is between shift and
\* push; it has taken every chunk from the queue, and the write in progress
\* is the write of a chunk it holds or has just released.  A second
\* activation would leave a held chunk with processing = false.
C22_SingleDrainLoop ==
    /\ chan.processing <=> (chan.awaiting # NoItem)
    /\ Len(chan.queue) = 0
    /\ chan.processing => chan.writing
    /\ Len(chan.buffered) > 0 => chan.processing

\* C22 witness: the loop that released the first chunk took the second from
\* the callback of the first and holds it, while a third write waits.
C22_Witness ==
    /\ chan.processing
    /\ chan.pushed = <<1>>
    /\ chan.awaiting.chunk = 2
    /\ Len(chan.buffered) = 1
    /\ chan.stats.delays = 1

\* C23: the callbacks called are the callbacks of the chunks pushed, in that
\* order and each once: no callback is called for a chunk that is still held,
\* and none twice.
C23_CallbackOnceAfterRelease ==
    /\ chan.called = chan.pushed
    /\ \A i, j \in DOMAIN chan.called :
            chan.called[i] = chan.called[j] => i = j
    /\ \A i \in DOMAIN chan.called : chan.called[i] \in 1..Len(written)

\* C23 witness: the callbacks of two chunks have been called, the second after
\* a delay, and the third chunk is held without its callback called.
C23_Witness ==
    /\ chan.called = <<1, 2>>
    /\ chan.stats.delays >= 2
    /\ chan.awaiting.chunk = 3

\* C25: with chunkDelay > 0, whatever the rate, the sizes, burstSize and
\* smoothing are: a chunk held at the await is due chunkDelay after the last
\* release (its delay is chunkDelay less the time since then, never more than
\* chunkDelay), every step releases one chunk at most, at least chunkDelay
\* after the release before it (after the construction, for the first), and
\* burstBytesUsed stays 0.
C25_FixedDelayMode ==
    [][chunkDelay > 0 =>
        /\ chan'.burstBytesUsed = 0
        /\ chan'.awaiting # NoItem =>
                /\ chan'.wakeAt = chan'.lastChunkTime + chunkDelay
                /\ AtMost(chan'.delay, chunkDelay)
                /\ chan'.delay.d = 1
        /\ chan'.pushed # chan.pushed =>
                /\ Len(chan'.pushed) = Len(chan.pushed) + 1
                /\ chan'.lastChunkTime - chan.lastChunkTime >= chunkDelay]_vars

\* C25 witness: with chunkDelay 2000 and a burst allowance, the first chunk
\* was written 2000 ms after the construction and released at once, the second
\* was released after a delay, and the third is held.
C25_Witness ==
    /\ chunkDelay = 2000
    /\ burstSize > 0
    /\ chan.pushed = <<1, 2>>
    /\ chan.stats.delays = 2
    /\ chan.awaiting.chunk = 3
    /\ chan.burstBytesUsed = 0

\* the delay of the rate branch for the held chunk, taken from the queue at
\* time t, had the bytes released under the burst allowance not been counted
\* in bytesWritten
DelayWithoutBurstBytes(t) ==
    LET excess == (chan.bytesWritten - chan.burstBytesUsed + chan.awaiting.size)
                      * 1000 * RateScale - (t - startTime) * bytesPerSecond
    IN  IF t = startTime \/ excess <= 0 THEN Zero
        ELSE IF smoothing THEN FracMin(Frac(excess, bytesPerSecond), SmoothingCap)
        ELSE Frac(excess, bytesPerSecond)

\* C28 (as claimed): the delay of a chunk held in rate mode is the delay it
\* would have if the bytes released under the burst allowance had not been
\* counted in bytesWritten.
C28_BurstBytesCarryNoPenalty ==
    (chunkDelay = 0 /\ chan.awaiting # NoItem) =>
        chan.delay = DelayWithoutBurstBytes(chan.wakeAt - CeilMs(chan.delay))

\* C16 (as claimed): a chunk larger than LIMITS.MAX_CHUNK_SIZE is never held in
\* the queue or by _processQueue, is never pushed, and is not counted.
C16_LargeChunkRejected ==
    /\ chan.awaiting.size <= MAX_CHUNK_SIZE
    /\ \A i \in DOMAIN chan.queue : chan.queue[i].size <= MAX_CHUNK_SIZE
    /\ \A i \in DOMAIN chan.pushed : written[chan.pushed[i]] <= MAX_CHUNK_SIZE
    /\ chan.stats.totalBytes <= MaxChunks * MAX_CHUNK_SIZE

\* the bytes of the chunks of a sequence of sizes
RECURSIVE SumSizes(_)
SumSizes(sizes) ==
    IF Len(sizes) = 0 THEN 0 ELSE Head(sizes) + SumSizes(Tail(sizes))

C19_SmoothedDelayAtMostCap ==
    (smoothing /\ chan.awaiting # NoItem) => AtMost(chan.delay, SmoothingCap)

\* C19 (amended): with smoothing and chunkDelay = 0 (burst and rate mode),
\* every delay _calculateDelay returns is at most 1000 ms; with chunkDelay > 0
\* it is at most chunkDelay, whatever smoothing is.
C19_SmoothedRateDelayAtMostCap ==
    chan.awaiting # NoItem =>
        /\ (smoothing /\ chunkDelay = 0) => AtMost(chan.delay, SmoothingCap)
        /\ chunkDelay > 0 => AtMost(chan.delay, chunkDelay)

\* C19 witness: with smoothing and chunkDelay = 0, a chunk that is 2000 ms
\* ahead of the rate waits for a delay of exactly 1000 ms.
C19_Witness ==
    /\ smoothing
    /\ chunkDelay = 0
    /\ burstSize = 0
    /\ chan.awaiting # NoItem
    /\ chan.awaiting.size = 2
    /\ chan.bytesWritten = 0
    /\ bytesPerSecond = 1 * RateScale
    /\ chan.delay = Frac(SmoothingCap, 1)

\* C13 (as claimed): without chunkDelay and burst allowance, a single chunk of
\* S bytes is not released earlier than S / bytesPerSecond seconds after the
\* construction of the stream.
C13_SingleChunkNotBeforeItsTime ==
    (chunkDelay = 0 /\ burstSize = 0 /\ Len(written) = 1 /\ Len(chan.pushed) = 1) =>
        (chan.lastChunkTime - startTime) * bytesPerSecond
            >= written[1] * 1000 * RateScale

\* C14 (as claimed): without chunkDelay and burst allowance, after every
\* release the bytes released since construction are at most 115% of
\* bytesPerSecond * elapsed milliseconds / 1000.
C14_ReleasedWithinBudget ==
    (chunkDelay = 0 /\ burstSize = 0) =>
        chan.bytesWritten * 1000 * RateScale * 20
            <= 23 * bytesPerSecond * (chan.lastChunkTime - startTime)

(***************************************************************************)
(* Claims about the adaptive endpoint, checked under SpecAdaptive.         *)
(***************************************************************************)
\* C6 (as claimed): every rate adaptInterval assigns to the stream is at least
\* the floor rate of 100 and at most twice the base rate.
C6_AppliedRateWithinFloorAndCeiling ==
    (Len(adaptations) > 0) =>
        /\ bytesPerSecond >= FloorRate * RateScale
        /\ bytesPerSecond <= 2 * baseBytesPerSecond * RateScale

\* C7 (as claimed): the rate of the stream stays within [1, 10 000 000],
\* after construction and after every change adaptInterval makes.
C7_RateWithinLimits ==
    /\ bytesPerSecond >= 1 * RateScale
    /\ bytesPerSecond <= 10000000 * RateScale

\* the records of adaptations as <<oldRate, newRate, reason>>, rates in bytes
\* per second
Adjustments ==
    [i \in DOMAIN adaptations |->
        <<Frac(adaptations[i].oldRate, RateScale), adaptations[i].newRate,
          adaptations[i].reason>>]

\* the loads of the records of adaptations
RecordedLoads == [i \in DOMAIN adaptations |-> adaptations[i].load]

\* the base rate 1000, the factor 0.5 and the threshold 0.8
Scenario1000 ==
    /\ baseBytesPerSecond = 1000
    /\ adaptationFactor = 1
    /\ loadThreshold = 80

\* C12: every record with the high-load reason has a load above loadThreshold
\* and newRate = max(100, oldRate * (1 - adaptationFactor)); every record with
\* the low-load reason has a load below 0.3 and newRate = min(2 * base,
\* oldRate * (1 + adaptationFactor)) (rounded in the record); the rate of the
\* stream is the rate of the last record; and with base rate 1000, threshold
\* 0.8 and factor 0.5 the loads 0.9, 0.9, 0.2 give exactly the records
\* 1000->500, 500->250, 250->375.
C12_AdaptationRecords ==
    /\ \A i \in DOMAIN adaptations :
        LET r == adaptations[i]
            lowered == (r.oldRate * (2 - adaptationFactor)) \div 2
            raised == (r.oldRate * (2 + adaptationFactor)) \div 2
            applied == IF i = Len(adaptations) THEN bytesPerSecond
                       ELSE adaptations[i + 1].oldRate
        IN  /\ r.reason \in {"High load detected", "Low load detected"}
            /\ r.reason = "High load detected" =>
                    /\ r.load > loadThreshold
                    /\ applied = Max(FloorRate * RateScale, lowered)
            /\ r.reason = "Low load detected" =>
                    /\ r.load < LowLoad
                    /\ r.load <= loadThreshold
                    /\ applied = Min(2 * baseBytesPerSecond * RateScale, raised)
            /\ r.newRate = Round(applied, RateScale)
    /\ (Scenario1000 /\ RecordedLoads = <<90, 90, 20>>) =>
            Adjustments = << <<Frac(1000, 1), 500, "High load detected">>,
                             <<Frac(500, 1), 250, "High load detected">>,
                             <<Frac(250, 1), 375, "Low load detected">> >>

\* C12 witness: the three samples 0.9, 0.9, 0.2 of the scenario have been
\* taken and the stream runs at 375 bytes per second.
C12_Witness ==
    /\ Scenario1000
    /\ RecordedLoads = <<90, 90, 20>>
    /\ Len(samples) = 3
    /\ bytesPerSecond = 375 * RateScale

\* the rate the constructor gave the stream of the adaptive endpoint
ConstructedRate ==
    Max(MIN_BYTES_PER_SECOND,
        Min(MAX_BYTES_PER_SECOND,
            IF baseBytesPerSecond = 0 THEN DefaultBytesPerSecond
                                      ELSE baseBytesPerSecond)) * RateScale

\* the delay of the body at the rate the stream had when the body was taken
\* from the queue, with the body enqueued at time t
DelayAtDequeue(size, t) ==
    FracMin(Frac(size * 1000 * RateScale - (t - startTime) * ConstructedRate,
                 ConstructedRate),
            SmoothingCap)

\* C18: a change of rate made by adaptInterval while the body is taken from
\* the queue and waiting for its timer changes neither the delay nor the
\* release time of the body: while it waits it is due at the time computed from
\* the rate the stream had when it was taken from the queue, and it is not
\* released before that time.
C18_SleepingChunkKeepsItsDelay ==
    /\ chan.awaiting # NoItem =>
            chan.wakeAt = chan.awaiting.timestamp
                            + CeilMs(DelayAtDequeue(chan.awaiting.size,
                                                    chan.awaiting.timestamp))
    /\ (chan.stats.delays = 1 /\ Len(chan.pushed) = 1) =>
            chan.lastChunkTime >= chan.wakeAt

\* C18 witness: the rate was changed while the body waited for its timer, to a
\* rate at which its delay would have been over by then, and the body has been
\* released since.
C18_Witness ==
    /\ chan.stats.delays = 1
    /\ Len(chan.pushed) = 1
    /\ Len(adaptations) > 0
    /\ adaptations[1].timestamp < chan.wakeAt - startTime
    /\ adaptations[1].newRate = FloorRate
    /\ baseBytesPerSecond = 1
    /\ written = <<2>>

\* the last load sampled, after a step that sampled one
LastSampled == samples'[Len(samples')]

\* C24: a run of adaptInterval whose load is neither above loadThreshold nor
\* below 0.3 (a load equal to either included) leaves the rate of the stream
\* and the records as they are; and every step leaves the records made so far
\* as they are, adding at most one.
C24_NoChangeTickChangesNothing ==
    [][/\ (/\ samples' # samples
            /\ LastSampled <= loadThreshold
            /\ LastSampled >= 30)
          => /\ adaptations' = adaptations
             /\ bytesPerSecond' = bytesPerSecond
             /\ currentBytesPerSecond' = currentBytesPerSecond
       /\ Len(adaptations') \in {Len(adaptations), Len(adaptations) + 1}
       /\ SubSeq(adaptations', 1, Len(adaptations)) = adaptations]_vars

\* C24 witness: after a change of rate, adaptInterval has sampled a load equal
\* to loadThreshold and one equal to 0.3, and has made no record for them.
C24_Witness ==
    /\ loadThreshold = 80
    /\ samples = <<90, 80, 30>>
    /\ Len(adaptations) = 1

\* the rate applied by the i-th adjustment: the oldRate of the next record,
\* or the rate of the stream after the last one
AppliedRate(i) ==
    IF i = Len(adaptations) THEN bytesPerSecond ELSE adaptations[i + 1].oldRate

\* C29 (as claimed): the newRate of every record is the rate applied to the
\* stream by that adjustment, so the oldRate of the next record.
C29_RecordedRateIsAppliedRate ==
    \A i \in DOMAIN adaptations :
        adaptations[i].newRate * RateScale = AppliedRate(i)

\* C27 (as claimed): once 'end' has been emitted adaptInterval changes nothing
\* any more, and it takes no sample later than a maximum run-time after the
\* construction, whether or not the stream has emitted 'end'.
C27_ControllerStops ==
    [][/\ chan.endEmitted =>
            /\ samples' = samples
            /\ adaptations' = adaptations
            /\ bytesPerSecond' = bytesPerSecond
       /\ samples' # samples => now - startTime <= RunTimeLimit]_vars

\* the summary of the reply agrees with the timeline
DemoSummaryConsistent ==
    /\ demo.allowedCount + demo.blockedCount = demo.requestCount
    /\ demo.requestCount = Len(demo.results)

\* C30 (as claimed): for every testDuration, a text without digits included, the
\* run of rateLimiting ends: the interval is cleared and the reply is sent once,
\* with allowedRequests + blockedRequests = totalRequests = the length of the
\* timeline.
C30_RateDemoTerminates ==
    <>(demo.phase = "replied" /\ demo.replies = 1 /\ DemoSummaryConsistent)

====
